---- MODULE Spec2Model ----
(***************************************************************************)
(* A model of backend/ragtest/main.py: the hybrid GraphRAG HTTP API.       *)
(*                                                                         *)
(*   Spec      the server: startup (lifespan), the four search handlers,   *)
(*             /query, /status, /health, running as tasks of one event     *)
(*             loop                                                        *)
(*   SpecCli   execute_cli_search applied to every outcome of the external *)
(*             process within the bounds                                   *)
(*   SpecNorm  process_context_data applied to every context value within  *)
(*             the bounds, and applied again to its own output             *)
(*                                                                         *)
(* Text is a sequence of tokens.  A token is a piece of text that the      *)
(* code's string operations never split: the marker "SUCCESS:", the two    *)
(* header prefixes, a newline, a blank, and the word "Hello".              *)
(***************************************************************************)
EXTENDS Integers, Sequences, FiniteSets, Bags, TLC

VARIABLES
    GRAPHRAG_API_AVAILABLE,   \* module global, set by the import at line 35-43
    CLAIM_EXTRACTION_ENABLED, \* module global (configuration)
    files,                    \* the readable files of the project directory
    lifespan_pc,              \* "start" before lifespan() has run, "serving" after
    app_state,                \* app.state: attribute name -> value
    req,                      \* the request tasks of the event loop, a bag of records
    h_pc, h_in, h_out, h_out2 \* harness of SpecCli and SpecNorm

svars == <<GRAPHRAG_API_AVAILABLE, CLAIM_EXTRACTION_ENABLED, files, lifespan_pc, app_state, req>>
hvars == <<h_pc, h_in, h_out, h_out2>>
vars == <<GRAPHRAG_API_AVAILABLE, CLAIM_EXTRACTION_ENABLED, files, lifespan_pc, app_state, req,
          h_pc, h_in, h_out, h_out2>>

(***************************************************************************)
(* Bounds                                                                  *)
(***************************************************************************)
MaxLen == 5      \* longest stdout, in tokens
MaxWidth == 2    \* most elements of a list, dict or tuple of a context value
NReq == 2        \* request tasks in flight

(***************************************************************************)
(* Program constants                                                       *)
(***************************************************************************)
COMMUNITY_LEVEL == 2
RESPONSE_TYPE == "Multiple Paragraphs"

(***************************************************************************)
(* Text                                                                    *)
(***************************************************************************)
MARKER == "SUCCESS:"
LOCAL_HEADER == "Local Search Response:"
GLOBAL_HEADER == "Global Search Response:"
NL == "\n"
SP == " "
Tokens == {MARKER, LOCAL_HEADER, GLOBAL_HEADER, NL, SP, "Hello"}

TextUpTo(n) == UNION {[1..k -> Tokens] : k \in 0..n}

\* str.strip() with no argument: whitespace is removed from both ends
IsSpace(t) == t \in {NL, SP}

RECURSIVE lstrip(_)
lstrip(s) == IF s # <<>> /\ IsSpace(Head(s)) THEN lstrip(Tail(s)) ELSE s

RECURSIVE rstrip(_)
rstrip(s) ==
    IF s # <<>> /\ IsSpace(s[Len(s)]) THEN rstrip(SubSeq(s, 1, Len(s) - 1)) ELSE s

strip(s) == rstrip(lstrip(s))

\* sub in s
contains(s, sub) == \E i \in 1..Len(s) : s[i] = sub

\* s.split(sep): the pieces of s between the occurrences of sep
RECURSIVE split(_, _)
split(s, sep) ==
    IF ~contains(s, sep) THEN <<s>>
    ELSE LET i == CHOOSE j \in 1..Len(s) :
                      s[j] = sep /\ \A k \in 1..(j - 1) : s[k] # sep
         IN  <<SubSeq(s, 1, i - 1)>> \o split(SubSeq(s, i + 1, Len(s)), sep)

\* sep.join(parts)
RECURSIVE join(_, _)
join(sep, parts) ==
    IF parts = <<>> THEN <<>>
    ELSE IF Len(parts) = 1 THEN parts[1]
    ELSE parts[1] \o <<sep>> \o join(sep, Tail(parts))

\* s.startswith((a, b))
startswith(s, prefixes) == s # <<>> /\ s[1] \in prefixes

(***************************************************************************)
(* execute_cli_search                                                      *)
(***************************************************************************)
\* lines 80-90: the command line; both kwargs are passed by every caller
cli_cmd(query, method) ==
    <<"graphrag", "query", "--root", ".", "--method", method, "--query", query,
      "--community_level", ToString(COMMUNITY_LEVEL), "--response_type", RESPONSE_TYPE>>

\* clean_response taking the piece after the first marker (response_parts[1])
\* in place of the piece after the last one
clean_response_first(stdout) ==
    LET response_text == strip(stdout)
    IN  IF contains(response_text, MARKER)
        THEN LET response_parts == split(response_text, MARKER)
                 first == strip(response_parts[2])
             IN  IF startswith(first, {LOCAL_HEADER, GLOBAL_HEADER})
                 THEN strip(join(NL, Tail(split(first, NL))))
                 ELSE first
        ELSE response_text

\* lines 106-114: the response text of a process that exited with code 0
clean_response(stdout) ==
    LET response_text == strip(stdout)
    IN  IF contains(response_text, MARKER)
        THEN LET response_parts == split(response_text, MARKER)
                 last == strip(response_parts[Len(response_parts)])
             IN  IF Len(response_parts) > 1
                 THEN IF startswith(last, {LOCAL_HEADER, GLOBAL_HEADER})
                      THEN strip(join(NL, Tail(split(last, NL))))
                      ELSE last
                 ELSE response_text
        ELSE response_text

\* The outcome of subprocess.run: it raised (timeout, spawn failure), or the
\* process exited with a return code, stdout and stderr.  elapsed is the
\* difference of the two time.time() readings.
ProcExit(rc, out, err, t) ==
    [raised |-> FALSE, message |-> <<>>, returncode |-> rc, stdout |-> out,
     stderr |-> err, elapsed |-> t]
ProcRaise(msg) ==
    [raised |-> TRUE, message |-> msg, returncode |-> 0, stdout |-> <<>>,
     stderr |-> <<>>, elapsed |-> 0]

\* lines 94-136: the result dictionary
cli_result(proc) ==
    IF proc.raised
    THEN [response |-> <<"CLI Exception: ">> \o proc.message,
          context_data |-> [error |-> proc.message],
          success |-> FALSE, method_used |-> "cli"]
    ELSE IF proc.returncode = 0
    THEN [response |-> clean_response(proc.stdout),
          context_data |-> [method |-> "cli_fallback", execution_time |-> proc.elapsed],
          success |-> TRUE, method_used |-> "cli"]
    ELSE [response |-> <<"CLI Error: ">> \o proc.stderr,
          context_data |-> [error |-> proc.stderr],
          success |-> FALSE, method_used |-> "cli"]

execute_cli_search(query, method, proc) == cli_result(proc)

(***************************************************************************)
(* Context values: what the engine returns as context_data.  Every value   *)
(* is a record of one shape: k is its Python type, s the payload of a      *)
(* string, keys the keys of a dict (or the columns of a DataFrame), items  *)
(* the elements of a list or tuple, the values of a dict, the rows of a    *)
(* DataFrame or the cells of a row.                                        *)
(***************************************************************************)
Value(k, s, keys, items) == [k |-> k, s |-> s, keys |-> keys, items |-> items]
Str(s) == Value("str", s, <<>>, <<>>)
IntV == Value("int", "1", <<>>, <<>>)
NoneV == Value("none", "", <<>>, <<>>)
ObjV == Value("obj", "", <<>>, <<>>)       \* e.g. a set or a numpy array
ListV(items) == Value("list", "", <<>>, items)
TupleV(items) == Value("tuple", "", <<>>, items)
DictV(keys, items) == Value("dict", "", keys, items)
Row(cells) == Value("row", "", <<>>, cells)
DataFrame(columns, rows) == Value("df", "", columns, rows)

\* DataFrame.to_dict(orient="records"): one dict per row, the columns as keys
to_dict_records(df) ==
    ListV([i \in 1..Len(df.items) |-> DictV(df.keys, df.items[i].items)])

\* recursively_convert without the dict branch
RECURSIVE recursively_convert_lists_only(_)
recursively_convert_lists_only(obj) ==
    IF obj.k = "df" THEN to_dict_records(obj)
    ELSE IF obj.k = "list"
    THEN ListV([i \in 1..Len(obj.items) |-> recursively_convert_lists_only(obj.items[i])])
    ELSE obj

\* lines 55-63
RECURSIVE recursively_convert(_)
recursively_convert(obj) ==
    IF obj.k = "df" THEN to_dict_records(obj)
    ELSE IF obj.k = "list"
    THEN ListV([i \in 1..Len(obj.items) |-> recursively_convert(obj.items[i])])
    ELSE IF obj.k = "dict"
    THEN DictV(obj.keys, [i \in 1..Len(obj.items) |-> recursively_convert(obj.items[i])])
    ELSE obj

\* lines 65-73
process_context_data(context_data) ==
    IF context_data.k = "str" THEN context_data
    ELSE IF context_data.k = "df" THEN to_dict_records(context_data)
    ELSE IF context_data.k \in {"list", "dict"} THEN recursively_convert(context_data)
    ELSE NoneV

\* JSONResponse(content=...) renders the content with json.dumps when it is
\* constructed: strings, numbers, None, lists, tuples and dicts with string
\* keys are encoded, any other object raises TypeError.
RECURSIVE json_serializable(_)
json_serializable(v) ==
    \/ v.k \in {"str", "int", "none"}
    \/ /\ v.k \in {"list", "tuple", "dict"}
       /\ \A i \in 1..Len(v.items) : json_serializable(v.items[i])

\* The context values of SpecNorm, by nesting depth
Cells == {Str("a"), IntV}
DataFrames == {DataFrame(<<"c">>, <<>>)} \cup {DataFrame(<<"c">>, <<Row(<<c>>)>>) : c \in Cells}
Level0 == {Str("a"), IntV, NoneV, ObjV} \cup DataFrames
DictKeys == <<"k1", "k2", "k3", "k4">>
Kinds == {"list", "tuple", "dict"}
Container(kind, items) ==
    IF kind = "list" THEN ListV(items)
    ELSE IF kind = "tuple" THEN TupleV(items)
    ELSE DictV(SubSeq(DictKeys, 1, Len(items)), items)
Level1(w) ==
    Level0 \cup {Container(kind, items) :
                    kind \in Kinds, items \in UNION {[1..n -> Level0] : n \in 0..w}}
Level2(w) ==
    LET L1 == Level1(w)
    IN  L1 \cup {Container(kind, <<x>>) : kind \in Kinds, x \in L1}
           \cup {Container(kind, <<x, y>>) : kind \in Kinds, x \in L1, y \in Level0}
Level3(w) ==
    LET L2 == Level2(w)
    IN  L2 \cup {Container(kind, <<x>>) : kind \in Kinds, x \in L2}
ContextValues(w) == Level3(w)

(***************************************************************************)
(* SpecCli and SpecNorm: the two pure functions on every input within the  *)
(* bounds.  The server does not run in them.                               *)
(***************************************************************************)
ServerOff ==
    /\ GRAPHRAG_API_AVAILABLE = FALSE
    /\ CLAIM_EXTRACTION_ENABLED = FALSE
    /\ files = {}
    /\ lifespan_pc = "off"
    /\ app_state = [attrs |-> {}, data_loaded |-> FALSE, covariates_none |-> FALSE]
    /\ req = EmptyBag

Stderrs == {<<>>, <<"boom">>}
Messages == {<<"Command timed out after 300 seconds">>, <<"No such file or directory">>}
Procs(n) ==
    {ProcExit(0, out, <<>>, 1) : out \in TextUpTo(n)}
        \cup {ProcExit(1, <<>>, err, 1) : err \in Stderrs}
        \cup {ProcRaise(msg) : msg \in Messages}

InitCli ==
    /\ ServerOff
    /\ h_pc = "cli"
    /\ h_in \in Procs(MaxLen)
    /\ h_out = <<>>
    /\ h_out2 = <<>>

CliCall ==
    /\ h_pc = "cli"
    /\ h_out' = execute_cli_search(<<"Hello">>, "local", h_in)
    /\ h_pc' = "cli_done"
    /\ UNCHANGED <<svars, h_in, h_out2>>

NextCli == CliCall
SpecCli == InitCli /\ [][NextCli]_vars

InitNorm ==
    /\ ServerOff
    /\ h_pc = "norm"
    /\ h_in \in ContextValues(MaxWidth)
    /\ h_out = <<>>
    /\ h_out2 = <<>>

NormCall ==
    /\ h_pc = "norm"
    /\ h_out' = process_context_data(h_in)
    /\ h_pc' = "norm_done"
    /\ UNCHANGED <<svars, h_in, h_out2>>

NormAgain ==
    /\ h_pc = "norm_done"
    /\ h_out2' = process_context_data(h_out)
    /\ h_pc' = "norm_again"
    /\ UNCHANGED <<svars, h_in, h_out>>

NextNorm == NormCall \/ NormAgain
SpecNorm == InitNorm /\ [][NextNorm]_vars

(***************************************************************************)
(* Startup: lifespan()                                                     *)
(***************************************************************************)
\* lines 147-154, in the order the code reads them
Required ==
    <<"config", "entities", "communities", "community_reports", "text_units",
      "relationships">>
AllFiles == {Required[i] : i \in 1..Len(Required)} \cup {"covariates"}

\* the first required file that cannot be read, 0 when all can
FirstUnreadable(fs) ==
    IF \A i \in 1..Len(Required) : Required[i] \in fs THEN 0
    ELSE CHOOSE i \in 1..Len(Required) :
             Required[i] \notin fs /\ \A j \in 1..(i - 1) : Required[j] \in fs

\* lifespan without the inner try around the covariates: an unreadable
\* covariates file fails the whole load
lifespan_state_strict(available, claims_enabled, fs) ==
    IF ~available
    THEN [attrs |-> {"data_loaded"}, data_loaded |-> FALSE, covariates_none |-> FALSE]
    ELSE IF FirstUnreadable(fs) # 0
    THEN [attrs |-> {Required[i] : i \in 1..(FirstUnreadable(fs) - 1)} \cup {"data_loaded"},
          data_loaded |-> FALSE, covariates_none |-> FALSE]
    ELSE IF claims_enabled /\ "covariates" \notin fs
    THEN [attrs |-> {Required[i] : i \in 1..Len(Required)} \cup {"data_loaded"},
          data_loaded |-> FALSE, covariates_none |-> FALSE]
    ELSE [attrs |-> {Required[i] : i \in 1..Len(Required)} \cup {"covariates", "data_loaded"},
          data_loaded |-> TRUE, covariates_none |-> ~claims_enabled]

\* lines 144-171: app.state after the try block
lifespan_state(available, claims_enabled, fs) ==
    IF ~available
    THEN [attrs |-> {"data_loaded"}, data_loaded |-> FALSE, covariates_none |-> FALSE]
    ELSE IF FirstUnreadable(fs) # 0
    THEN [attrs |-> {Required[i] : i \in 1..(FirstUnreadable(fs) - 1)} \cup {"data_loaded"},
          data_loaded |-> FALSE, covariates_none |-> FALSE]
    ELSE [attrs |-> {Required[i] : i \in 1..Len(Required)} \cup {"covariates", "data_loaded"},
          data_loaded |-> TRUE,
          covariates_none |-> ~(claims_enabled /\ "covariates" \in fs)]

lifespan ==
    /\ lifespan_pc = "start"
    /\ app_state' = lifespan_state(GRAPHRAG_API_AVAILABLE, CLAIM_EXTRACTION_ENABLED, files)
    /\ lifespan_pc' = "serving"
    /\ UNCHANGED <<GRAPHRAG_API_AVAILABLE, CLAIM_EXTRACTION_ENABLED, files, req, hvars>>

(***************************************************************************)
(* Requests                                                                *)
(***************************************************************************)
Methods == {"global", "local", "drift", "basic"}
SearchRoutes == {"/search/global", "/search/local", "/search/drift", "/search/basic"}
Routes == SearchRoutes \cup {"/query", "/status", "/", "/health"}
Omitted == "(omitted)"
QueryMethods == Methods \cup {"bogus", Omitted}
Queries == {<<"Hello">>}

\* what the engine did when it was called
NoEngine == [kind |-> "none", response |-> <<>>, context |-> NoneV]
EngineRaised == [kind |-> "raised", response |-> <<>>, context |-> NoneV]
EngineReturned(response, context) ==
    [kind |-> "returned", response |-> response, context |-> context]
EngineContexts ==
    {DictV(<<"k1">>, <<DataFrame(<<"c">>, <<Row(<<Str("a")>>)>>)>>), ListV(<<ObjV>>)}
EngineReturns == {EngineReturned(<<"Hello">>, c) : c \in EngineContexts}

\* what the external process did
ServerProcs ==
    {ProcExit(0, <<MARKER, NL, LOCAL_HEADER, NL, "Hello">>, <<>>, 1),
     ProcExit(0, <<>>, <<>>, 1),
     ProcExit(1, <<>>, <<"boom">>, 1),
     ProcRaise(<<"Command timed out after 300 seconds">>)}

NoBody == [none |-> TRUE]
IdleReq ==
    [pc |-> "idle", route |-> "", method |-> "", query |-> <<>>, handler |-> "",
     engine_calls |-> <<>>, engine |-> NoEngine, cli_calls |-> <<>>, procs |-> <<>>,
     status_code |-> 0, body |-> NoBody]

\* The tasks have no identity of their own: req is the bag of their records.
Tasks == BagToSet(req)
Replace(rec, new) == (req (-) SetToBag({rec})) (+) SetToBag({new})

\* The event loop runs one task at a time, and a task gives it up only at an
\* await that suspends.  subprocess.run (line 95) is a blocking call: the
\* task inside it keeps the loop until the process has ended.
LoopFree == \A t \in Tasks : t.pc # "cli_run"

Respond(rec, code, body) == [rec EXCEPT !.pc = "done", !.status_code = code, !.body = body]

\* CliMethod with drift passed on as its own method token
CliMethod_drift(h) ==
    CASE h = "global" -> "global"
      [] h = "local" -> "local"
      [] h = "drift" -> "drift"
      [] h = "basic" -> "local"

\* the method token each handler passes to execute_cli_search
CliMethod(h) ==
    CASE h = "global" -> "global"
      [] h = "local" -> "local"
      [] h = "drift" -> "local"
      [] h = "basic" -> "local"

\* lines 226-231 (274-279, 321-326, 363-368): the CLI phase begins
StartCli(rec) ==
    [rec EXCEPT !.pc = "cli_run",
                !.cli_calls = Append(@, cli_cmd(rec.query, CliMethod(rec.handler)))]

\* the gate without the data_loaded test
ApiGate_import_only == GRAPHRAG_API_AVAILABLE

\* lines 198-210: the handler h starts on the query of rec
ApiGate == GRAPHRAG_API_AVAILABLE /\ app_state.data_loaded

EnterSearch(rec, h) ==
    LET rec1 == [rec EXCEPT !.handler = h]
    IN  IF ApiGate
        THEN [rec1 EXCEPT !.pc = "api_wait", !.engine_calls = Append(@, h)]
        ELSE StartCli(rec1)

\* lines 212-219: the engine returned; the response is built and rendered
ApiResponse(e) ==
    [response |-> e.response, context_data |-> process_context_data(e.context),
     method_used |-> "api", success |-> TRUE]

\* AfterEngine without the except block: an exception of the engine call
\* reaches the client
AfterEngine_surfaces(rec, e) ==
    LET rec1 == [rec EXCEPT !.engine = e]
    IN  IF e.kind = "raised"
        THEN Respond(rec1, 500, [detail |-> <<"Internal Server Error">>])
        ELSE IF json_serializable(ApiResponse(e).context_data)
        THEN Respond(rec1, 200, ApiResponse(e))
        ELSE StartCli(rec1)

AfterEngine(rec, e) ==
    LET rec1 == [rec EXCEPT !.engine = e]
    IN  IF e.kind = "returned" /\ json_serializable(ApiResponse(e).context_data)
        THEN Respond(rec1, 200, ApiResponse(e))
        ELSE StartCli(rec1)

\* AfterCli without the test of result["success"]
AfterCli_unchecked(rec, proc) ==
    LET result == execute_cli_search(rec.query, CliMethod(rec.handler), proc)
        rec1 == [rec EXCEPT !.procs = Append(@, proc)]
    IN  IF rec.handler = "drift"
        THEN Respond(rec1, 200, [result EXCEPT !.method_used = "cli_local_fallback"])
        ELSE IF rec.handler = "basic"
        THEN Respond(rec1, 200, [result EXCEPT !.method_used = "cli_basic_fallback"])
        ELSE Respond(rec1, 200, result)

\* lines 233-236, 328-332, 370-374: the end of the CLI phase
AfterCli(rec, proc) ==
    LET result == execute_cli_search(rec.query, CliMethod(rec.handler), proc)
        rec1 == [rec EXCEPT !.procs = Append(@, proc)]
    IN  IF ~result.success
        THEN Respond(rec1, 500, [detail |-> result.response])
        ELSE IF rec.handler = "drift"
        THEN Respond(rec1, 200, [result EXCEPT !.method_used = "cli_local_fallback"])
        ELSE IF rec.handler = "basic"
        THEN Respond(rec1, 200, [result EXCEPT !.method_used = "cli_basic_fallback"])
        ELSE Respond(rec1, 200, result)

\* query_get with drift dispatched to local_search
QueryDispatch_drift_as_local(rec) ==
    LET method == IF rec.method = Omitted THEN "global" ELSE rec.method
    IN  IF method = "global" THEN EnterSearch(rec, "global")
        ELSE IF method = "local" THEN EnterSearch(rec, "local")
        ELSE IF method = "drift" THEN EnterSearch(rec, "local")
        ELSE IF method = "basic" THEN EnterSearch(rec, "basic")
        ELSE Respond(rec, 400,
                     [detail |-> <<"Invalid method", ". Use: global, local, drift, or basic">>])

\* lines 406-415
QueryDispatch(rec) ==
    LET method == IF rec.method = Omitted THEN "global" ELSE rec.method
    IN  IF method = "global" THEN EnterSearch(rec, "global")
        ELSE IF method = "local" THEN EnterSearch(rec, "local")
        ELSE IF method = "drift" THEN EnterSearch(rec, "drift")
        ELSE IF method = "basic" THEN EnterSearch(rec, "basic")
        ELSE Respond(rec, 400,
                     [detail |-> <<"Invalid method", ". Use: global, local, drift, or basic">>])

\* lines 379-387
StatusBody ==
    [status |-> "Server is up and running",
     graphrag_api_available |-> GRAPHRAG_API_AVAILABLE,
     data_loaded |-> IF "data_loaded" \in app_state.attrs THEN app_state.data_loaded ELSE FALSE,
     fallback_mode |-> IF ~GRAPHRAG_API_AVAILABLE THEN "CLI available" ELSE "API + CLI fallback",
     project_directory |-> ".",
     community_level |-> COMMUNITY_LEVEL,
     response_type |-> RESPONSE_TYPE]

RouteHandler(route) ==
    CASE route = "/search/global" -> "global"
      [] route = "/search/local" -> "local"
      [] route = "/search/drift" -> "drift"
      [] route = "/search/basic" -> "basic"

SUnchanged == UNCHANGED <<GRAPHRAG_API_AVAILABLE, CLAIM_EXTRACTION_ENABLED, files,
                          lifespan_pc, app_state, hvars>>

\* a client sends a request; the server accepts requests once startup is over
Arrive ==
    /\ lifespan_pc = "serving"
    /\ BagCardinality(req) < NReq
    /\ \E route \in Routes, q \in Queries, m \in QueryMethods :
          /\ route # "/query" => m = Omitted
          /\ req' = req (+) SetToBag({[IdleReq EXCEPT !.pc = "received", !.route = route,
                                                      !.method = m, !.query = q]})
    /\ SUnchanged

\* global_search, local_search, drift_search, basic_search up to their first await
search_task(t) ==
    /\ LoopFree
    /\ t.pc = "received"
    /\ t.route \in SearchRoutes
    /\ req' = Replace(t, EnterSearch(t, RouteHandler(t.route)))
    /\ SUnchanged

query_get_task(t) ==
    /\ LoopFree
    /\ t.pc = "received"
    /\ t.route = "/query"
    /\ req' = Replace(t, QueryDispatch(t))
    /\ SUnchanged

status_task(t) ==
    /\ LoopFree
    /\ t.pc = "received"
    /\ t.route \in {"/status", "/"}
    /\ req' = Replace(t, Respond(t, 200, StatusBody))
    /\ SUnchanged

health_task(t) ==
    /\ LoopFree
    /\ t.pc = "received"
    /\ t.route = "/health"
    /\ req' = Replace(t, Respond(t, 200, [status |-> "healthy"]))
    /\ SUnchanged

\* the awaited engine call returns, and the handler resumes
api_returns_task(t) ==
    /\ LoopFree
    /\ t.pc = "api_wait"
    /\ \E e \in EngineReturns : req' = Replace(t, AfterEngine(t, e))
    /\ SUnchanged

\* the awaited engine call raises, and the handler resumes in its except block
api_raises_task(t) ==
    /\ LoopFree
    /\ t.pc = "api_wait"
    /\ req' = Replace(t, AfterEngine(t, EngineRaised))
    /\ SUnchanged

\* subprocess.run returns or raises, and the handler runs to its end
cli_returns_task(t) ==
    /\ t.pc = "cli_run"
    /\ \E proc \in ServerProcs : req' = Replace(t, AfterCli(t, proc))
    /\ SUnchanged

\* each handler step, taken by any task that can take it
search == \E t \in Tasks : search_task(t)
query_get == \E t \in Tasks : query_get_task(t)
status == \E t \in Tasks : status_task(t)
health == \E t \in Tasks : health_task(t)
api_returns == \E t \in Tasks : api_returns_task(t)
api_raises == \E t \in Tasks : api_raises_task(t)
cli_returns == \E t \in Tasks : cli_returns_task(t)

Init ==
    /\ GRAPHRAG_API_AVAILABLE \in BOOLEAN
    /\ CLAIM_EXTRACTION_ENABLED = FALSE
    /\ files \in {AllFiles, AllFiles \ {"relationships"}}
    /\ lifespan_pc = "start"
    /\ app_state = [attrs |-> {}, data_loaded |-> FALSE, covariates_none |-> FALSE]
    /\ req = EmptyBag
    /\ h_pc = "off" /\ h_in = <<>> /\ h_out = <<>> /\ h_out2 = <<>>

Next ==
    \/ lifespan
    \/ Arrive
    \/ search
    \/ query_get
    \/ status
    \/ health
    \/ api_returns
    \/ api_raises
    \/ cli_returns

Spec == Init /\ [][Next]_vars

\* SpecStartup: lifespan() on every set of readable files and both settings
\* of the two module globals
InitStartup ==
    /\ GRAPHRAG_API_AVAILABLE \in BOOLEAN
    /\ CLAIM_EXTRACTION_ENABLED \in BOOLEAN
    /\ files \in SUBSET AllFiles
    /\ lifespan_pc = "start"
    /\ app_state = [attrs |-> {}, data_loaded |-> FALSE, covariates_none |-> FALSE]
    /\ req = EmptyBag
    /\ h_pc = "off" /\ h_in = <<>> /\ h_out = <<>> /\ h_out2 = <<>>

NextStartup == lifespan
SpecStartup == InitStartup /\ [][NextStartup]_vars

(***************************************************************************)
(* Vocabulary of the properties                                            *)
(***************************************************************************)
Done(t) == t.pc = "done"
IsSearch(t) == t.handler # ""
ApiAttempted(t) == t.engine_calls # <<>>
\* the API phase raised: in the engine call, or while the response was built
ApiFailed(t) ==
    \/ t.engine.kind = "raised"
    \/ /\ t.engine.kind = "returned"
       /\ ~json_serializable(process_context_data(t.engine.context))
ApiSucceeded(t) ==
    /\ t.engine.kind = "returned"
    /\ json_serializable(process_context_data(t.engine.context))
MethodParam(t) == IF t.method = Omitted THEN "global" ELSE t.method

\* no DataFrame anywhere in v
RECURSIVE NoTabular(_)
NoTabular(v) == v.k # "df" /\ \A i \in 1..Len(v.items) : NoTabular(v.items[i])

(***************************************************************************)
(* C1                                                                      *)
(***************************************************************************)
\* C1 as stated: the engine is called only if the library was importable and
\* the startup load succeeded; whenever the engine call returns, the handler
\* answers 200 with method_used "api" and the CLI bridge is never invoked.
C1_AsStated ==
    \A t \in Tasks :
        /\ ApiAttempted(t) => GRAPHRAG_API_AVAILABLE /\ app_state.data_loaded
        /\ t.engine.kind = "returned" =>
              /\ t.cli_calls = <<>>
              /\ Done(t)
              /\ t.status_code = 200
              /\ t.body.method_used = "api"
              /\ t.body.success

\* C1 amended: the engine is called only if the library was importable and
\* the startup load succeeded (so never after a failed load); when the call
\* returns and the normalized context can be rendered as JSON, the handler
\* answers 200 with the engine's response, the normalized context,
\* method_used "api" and success true, and never invokes the CLI bridge.
C1_ApiGate ==
    \A t \in Tasks :
        /\ ApiAttempted(t) => GRAPHRAG_API_AVAILABLE /\ app_state.data_loaded
        /\ ~(GRAPHRAG_API_AVAILABLE /\ lifespan_pc = "serving" /\ app_state.data_loaded)
              => t.engine_calls = <<>> /\ t.engine.kind = "none"
        /\ Len(t.engine_calls) <= 1
        /\ ApiSucceeded(t) =>
              /\ t.cli_calls = <<>> /\ t.procs = <<>>
              /\ Done(t)
              /\ t.status_code = 200
              /\ t.body.response = t.engine.response
              /\ NoTabular(t.body.context_data)
              /\ t.body.method_used = "api"
              /\ t.body.success

C1_Witness ==
    \E t \in Tasks :
        /\ Done(t) /\ t.engine.kind = "returned" /\ t.cli_calls = <<>>
        /\ t.status_code = 200 /\ t.body.method_used = "api"

(***************************************************************************)
(* C2                                                                      *)
(***************************************************************************)
\* C2: when the API phase was attempted and raised (in the engine call or
\* while the response was normalized and rendered), the handler goes on to
\* the CLI phase, invokes the CLI bridge exactly once, and the answer is
\* the one the CLI result gives: 200 with a CLI method tag, or 500 with the
\* CLI result's response text, the same for every way the API phase failed.
C2_ApiFailureFallsBack ==
    \A t \in Tasks :
        /\ Len(t.cli_calls) <= 1 /\ Len(t.procs) <= Len(t.cli_calls)
        /\ ApiFailed(t) =>
              /\ t.pc \in {"cli_run", "done"}
              /\ Len(t.cli_calls) = 1
              /\ Done(t) =>
                    /\ Len(t.procs) = 1
                    /\ t.status_code \in {200, 500}
                    /\ t.status_code = 200 <=>
                          (~t.procs[1].raised /\ t.procs[1].returncode = 0)
                    /\ t.status_code = 200 => t.body.method_used # "api"
                    /\ t.status_code = 500 =>
                          t.body.detail = cli_result(t.procs[1]).response
                    /\ \A u \in Tasks :
                          (Done(u) /\ ApiFailed(u) /\ u.handler = t.handler
                             /\ u.query = t.query /\ u.procs = t.procs)
                          => (u.status_code = t.status_code /\ u.body = t.body)

C2_Witness ==
    \E t, u \in Tasks :
        /\ Done(t) /\ t.engine.kind = "raised" /\ t.status_code = 200
        /\ Done(u) /\ u.engine.kind = "returned" /\ ApiFailed(u) /\ u.status_code = 200
        /\ u.handler = t.handler /\ Len(u.cli_calls) = 1

(***************************************************************************)
(* C3                                                                      *)
(***************************************************************************)
MethodTags == {"api", "cli", "cli_local_fallback", "cli_basic_fallback"}
\* position of the method token in the command line: ... "--method", token
MethodTokenOf(cmd) == cmd[6]

\* C3: a search answered through the CLI phase with success has the method
\* token and the method_used tag of its endpoint: global -> "global"/"cli",
\* local -> "local"/"cli", drift -> "local"/"cli_local_fallback",
\* basic -> "local"/"cli_basic_fallback"; every method_used is one of the
\* four tags, and a fallback tag appears only on its own endpoint.
C3_MethodTags ==
    \A t \in Tasks :
        /\ t.cli_calls # <<>> =>
              /\ t.cli_calls[1][5] = "--method"
              /\ t.handler = "global" => MethodTokenOf(t.cli_calls[1]) = "global"
              /\ t.handler \in {"local", "drift", "basic"}
                    => MethodTokenOf(t.cli_calls[1]) = "local"
        /\ (Done(t) /\ IsSearch(t) /\ t.status_code = 200) =>
              /\ t.body.method_used \in MethodTags
              /\ t.body.method_used = "cli_local_fallback" => t.handler = "drift"
              /\ t.body.method_used = "cli_basic_fallback" => t.handler = "basic"
              /\ t.procs # <<>> =>
                    /\ t.handler \in {"global", "local"} => t.body.method_used = "cli"
                    /\ t.handler = "drift" => t.body.method_used = "cli_local_fallback"
                    /\ t.handler = "basic" => t.body.method_used = "cli_basic_fallback"

C3_Witness ==
    \E t, u \in Tasks :
        /\ Done(t) /\ t.handler = "drift" /\ t.status_code = 200
        /\ t.body.method_used = "cli_local_fallback"
        /\ Done(u) /\ u.handler = "basic" /\ u.status_code = 200
        /\ u.body.method_used = "cli_basic_fallback"

(***************************************************************************)
(* C4                                                                      *)
(***************************************************************************)
\* C4: a search that reached the CLI phase and whose process exited nonzero
\* is answered 500 with detail "CLI Error: " + stderr; one whose process
\* timed out or could not be started is answered 500 with detail
\* "CLI Exception: " + message; the error body carries no method_used, and
\* every 200 answer of a search has success true.
C4_CliFailure ==
    \A t \in Tasks :
        /\ (Done(t) /\ t.procs # <<>> /\ ~t.procs[1].raised /\ t.procs[1].returncode # 0) =>
              /\ t.status_code = 500
              /\ t.body = [detail |-> <<"CLI Error: ">> \o t.procs[1].stderr]
        /\ (Done(t) /\ t.procs # <<>> /\ t.procs[1].raised) =>
              /\ t.status_code = 500
              /\ t.body = [detail |-> <<"CLI Exception: ">> \o t.procs[1].message]
        /\ (Done(t) /\ IsSearch(t) /\ t.status_code = 200) => t.body.success

C4_Witness ==
    \E t, u \in Tasks :
        /\ Done(t) /\ t.handler = "drift" /\ t.procs # <<>> /\ t.procs[1].returncode = 1
        /\ t.status_code = 500 /\ t.body.detail = <<"CLI Error: ", "boom">>
        /\ Done(u) /\ u.procs # <<>> /\ u.procs[1].raised /\ u.status_code = 500

(***************************************************************************)
(* C5                                                                      *)
(***************************************************************************)
\* C5: every search result returned with success true has a non-empty
\* response text.
C5_AsStated ==
    \A t \in Tasks :
        (Done(t) /\ IsSearch(t) /\ t.status_code = 200 /\ t.body.success)
            => t.body.response # <<>>

(***************************************************************************)
(* C6                                                                      *)
(***************************************************************************)
Min(S) == CHOOSE x \in S : \A y \in S : x <= y
Max(S) == CHOOSE x \in S : \A y \in S : x >= y
Drop(s, n) == SubSeq(s, n + 1, Len(s))
Positions(s, tok) == {i \in 1..Len(s) : s[i] = tok}
\* s from its first to its last token that is not whitespace
Trimmed(s) ==
    LET solid == {i \in 1..Len(s) : ~IsSpace(s[i])}
    IN  IF solid = {} THEN <<>> ELSE SubSeq(s, Min(solid), Max(solid))
AfterLastMarker(s) == Drop(s, Max(Positions(s, MARKER)))
\* s without its first line; nothing is left when s is one line
AfterFirstLine(s) ==
    IF Positions(s, NL) = {} THEN <<>> ELSE Drop(s, Min(Positions(s, NL)))
Headers == {LOCAL_HEADER, GLOBAL_HEADER}
ExitedZero == h_pc = "cli_done" /\ ~h_in.raised /\ h_in.returncode = 0

ClaimedResponse(stdout) ==
    LET rest == IF Positions(stdout, MARKER) = {} THEN stdout ELSE AfterLastMarker(stdout)
    IN  IF rest # <<>> /\ rest[1] \in Headers /\ (Len(rest) = 1 \/ rest[2] = NL)
        THEN AfterFirstLine(rest)
        ELSE rest

\* C6 as stated: for a process that exited with code 0 the response is
\* stdout itself when it has no marker, else the text after the marker, and
\* in either case a leading header line is removed.
C6_AsStated == ExitedZero => h_out.response = ClaimedResponse(h_in.stdout)

ExpectedResponse(stdout) ==
    IF Positions(stdout, MARKER) = {} THEN Trimmed(stdout)
    ELSE LET rest == Trimmed(AfterLastMarker(stdout))
         IN  IF rest # <<>> /\ rest[1] \in Headers
             THEN Trimmed(AfterFirstLine(rest))
             ELSE rest

\* C6 amended: for a process that exited with code 0 the response is stdout
\* without its leading and trailing whitespace when it has no marker;
\* otherwise it is the text after the last marker, without leading and
\* trailing whitespace, and, only in this case, when that text starts with
\* "Local Search Response:" or "Global Search Response:", its first line is
\* removed and the rest is stripped of whitespace again.  So
\* "SUCCESS:\nLocal Search Response:\nHello" and "SUCCESS:\nHello" both give
\* "Hello".
C6_CleanResponse ==
    ExitedZero =>
        /\ h_out.response = ExpectedResponse(h_in.stdout)
        /\ h_out.success /\ h_out.method_used = "cli"
        /\ h_in.stdout = <<MARKER, NL, LOCAL_HEADER, NL, "Hello">>
              => h_out.response = <<"Hello">>
        /\ h_in.stdout = <<MARKER, NL, "Hello">> => h_out.response = <<"Hello">>

C6_Witness ==
    /\ ExitedZero
    /\ h_in.stdout = <<MARKER, NL, LOCAL_HEADER, NL, "Hello">>
    /\ h_out.response = <<"Hello">>

(***************************************************************************)
(* C7                                                                      *)
(***************************************************************************)
\* C7: a finished /query request with method global, local, drift or basic
\* (or none: global) has the status code, body, engine calls and CLI
\* invocations of a finished /search/<method> request for the same query
\* that saw the same engine and process behaviour; with any other method it
\* is answered 400 "Invalid method..." and calls nothing.
C7_QueryDispatch ==
    \A a \in Tasks :
        (Done(a) /\ a.route = "/query") =>
            /\ MethodParam(a) \in Methods =>
                  /\ a.handler = MethodParam(a)
                  /\ \A b \in Tasks :
                        (/\ Done(b)
                         /\ b.route \in SearchRoutes
                         /\ RouteHandler(b.route) = MethodParam(a)
                         /\ b.query = a.query
                         /\ b.engine = a.engine
                         /\ b.procs = a.procs)
                        => /\ a.status_code = b.status_code
                           /\ a.body = b.body
                           /\ a.engine_calls = b.engine_calls
                           /\ a.cli_calls = b.cli_calls
            /\ MethodParam(a) \notin Methods =>
                  /\ a.status_code = 400
                  /\ a.body.detail[1] = "Invalid method"
                  /\ a.engine_calls = <<>> /\ a.cli_calls = <<>> /\ a.procs = <<>>

C7_Witness ==
    \E a, b \in Tasks :
        /\ Done(a) /\ a.route = "/query" /\ a.method = "drift"
        /\ Done(b) /\ b.route = "/search/drift"
        /\ a.engine = b.engine /\ a.procs = b.procs
        /\ a.status_code = 200 /\ a.body.method_used = "cli_local_fallback"

(***************************************************************************)
(* C8                                                                      *)
(***************************************************************************)
Normalized == h_pc \in {"norm_done", "norm_again"}

\* only JSON primitives, mappings and sequences
RECURSIVE OnlyJson(_)
OnlyJson(v) ==
    \/ v.k \in {"str", "int", "none"}
    \/ v.k \in {"list", "tuple", "dict"} /\ \A i \in 1..Len(v.items) : OnlyJson(v.items[i])

RECURSIVE ClaimedNormalize(_)
ClaimedNormalize(v) ==
    IF v.k = "str" THEN v
    ELSE IF v.k = "df" THEN to_dict_records(v)
    ELSE IF v.k \in {"list", "dict"}
    THEN Value(v.k, "", v.keys, [i \in 1..Len(v.items) |-> ClaimedNormalize(v.items[i])])
    ELSE NoneV

\* C8 as stated: the output holds only JSON primitives, mappings and
\* sequences and no tabular structure at any depth; strings are unchanged,
\* tabular structures become row mappings, sequences and mappings are
\* normalized element by element, anything else becomes null; normalizing
\* the output again changes nothing.
C8_AsStated ==
    Normalized =>
        /\ OnlyJson(h_out) /\ NoTabular(h_out)
        /\ h_out = ClaimedNormalize(h_in)
        /\ h_pc = "norm_again" => h_out2 = h_out

\* out is the sequence of row mappings of the tabular structure df
RowsOf(out, df) ==
    /\ out.k = "list" /\ Len(out.items) = Len(df.items)
    /\ \A i \in 1..Len(df.items) :
          /\ out.items[i].k = "dict" /\ out.items[i].keys = df.keys
          /\ out.items[i].items = df.items[i].items

\* out is v with every tabular structure that is reached through lists and
\* dicts replaced by its rows, and everything else as it was
RECURSIVE ConvertedFrom(_, _)
ConvertedFrom(out, v) ==
    IF v.k = "df" THEN RowsOf(out, v)
    ELSE IF v.k \in {"list", "dict"}
    THEN /\ out.k = v.k /\ out.keys = v.keys /\ Len(out.items) = Len(v.items)
         /\ \A i \in 1..Len(v.items) : ConvertedFrom(out.items[i], v.items[i])
    ELSE out = v

\* no DataFrame is reached from v through lists and dicts
RECURSIVE TabularFree(_)
TabularFree(v) ==
    /\ v.k # "df"
    /\ v.k \in {"list", "dict"} => \A i \in 1..Len(v.items) : TabularFree(v.items[i])

\* C8 amended (tables with scalar cells): a string is returned unchanged, a
\* tabular structure becomes the sequence of its row mappings, a list or
\* dict is converted element by element with order and keys preserved,
\* where a nested value that is not a list, a dict or a tabular structure
\* (a number, null, a tuple, any other object) is kept as it is, and any
\* other top-level value becomes null; in the output no tabular structure
\* is reached through lists and dicts, and normalizing the output again
\* returns it unchanged.
C8_Normalizer ==
    Normalized =>
        /\ h_in.k = "str" => h_out = h_in
        /\ h_in.k \in {"df", "list", "dict"} => ConvertedFrom(h_out, h_in)
        /\ h_in.k \notin {"str", "df", "list", "dict"} => h_out = NoneV
        /\ TabularFree(h_out)
        /\ h_pc = "norm_again" => h_out2 = h_out

C8_Witness ==
    /\ h_pc = "norm_again"
    /\ h_in = DictV(<<"k1">>, <<ListV(<<DataFrame(<<"c">>, <<Row(<<Str("a")>>)>>)>>)>>)
    /\ h_out = DictV(<<"k1">>, <<ListV(<<ListV(<<DictV(<<"c">>, <<Str("a")>>)>>)>>)>>)
    /\ h_out2 = h_out

(***************************************************************************)
(* C9                                                                      *)
(***************************************************************************)
\* C9: while a request waits for its external process, the other requests
\* make progress: a request that has been received can be handled.
C9_AsStated ==
    \A t, u \in Tasks :
        (t.pc = "cli_run" /\ u.pc = "received")
            => ENABLED (search_task(u) \/ query_get_task(u) \/ status_task(u)
                          \/ health_task(u))

\* What the code does instead: at most one external process runs at a time.
OneProcessAtATime ==
    \A t, u \in Tasks :
        (t.pc = "cli_run" /\ u.pc = "cli_run") => (t = u /\ CopiesIn(t, req) = 1)

(***************************************************************************)
(* C10                                                                     *)
(***************************************************************************)
RequiredNames == {Required[i] : i \in 1..Len(Required)}

\* C10: after startup data_loaded is set, and it is true exactly when the
\* engine library was importable and the configuration and the five
\* required artifacts could all be read; the optional covariates never
\* decide it, and are recorded as absent when they cannot be read or are
\* not enabled; when data_loaded is true, the configuration, the five
\* required artifacts and the covariates slot are all defined.
C10_DataLoaded ==
    lifespan_pc = "serving" =>
        /\ "data_loaded" \in app_state.attrs
        /\ app_state.data_loaded <=> (GRAPHRAG_API_AVAILABLE /\ RequiredNames \subseteq files)
        /\ app_state.data_loaded =>
              /\ RequiredNames \cup {"covariates"} \subseteq app_state.attrs
              /\ ("covariates" \notin files \/ ~CLAIM_EXTRACTION_ENABLED)
                    => app_state.covariates_none
        /\ app_state.attrs \subseteq RequiredNames \cup {"covariates", "data_loaded"}

C10_Witness ==
    /\ lifespan_pc = "serving"
    /\ app_state.data_loaded
    /\ CLAIM_EXTRACTION_ENABLED /\ "covariates" \notin files
    /\ app_state.covariates_none

====
